---- MODULE Spec2Model ----
(***************************************************************************)
(* Model of superthanks.js: the amount parser (normNumber,                 *)
(* normalizeCurrency), the recognition regex CURRENCY_RE, the detection    *)
(* predicate isSuperThanksBlock, the in-page extraction                    *)
(* extractFindingsInPage, and the live collection layer (seen, findings,   *)
(* liveTotals, collectAndReport, printLiveTotals, mapToSortedObject).      *)
(*                                                                         *)
(* Text is a sequence of characters; a character is a one-element string.  *)
(* Non-ASCII characters have ASCII names: "LIRA" U+20BA, "EURO" U+20AC,    *)
(* "POUND" U+00A3, "YEN" U+00A5, "RUPEE" U+20B9, "WON" U+20A9,             *)
(* "DONG" U+20AB, "NAIRA" U+20A6, "PESO" U+20B1, "NBSP" U+00A0,            *)
(* "NNBSP" U+202F, "LF" U+000A, "s," U+015F, "S," U+015E, "u:" U+00FC,     *)
(* "U:" U+00DC.                                                            *)
(*                                                                         *)
(* A JavaScript number is modelled as an exact decimal [fin, m, e] of      *)
(* value m / 10^e, kept normalised (no trailing zero in m while e > 0);    *)
(* NaN and Infinity are the values with fin = FALSE.  Binary rounding of   *)
(* IEEE doubles is not modelled; overflow to Infinity is.                  *)
(***************************************************************************)
EXTENDS Integers, Sequences, FiniteSets, TLC

(* ------------------------------ bounds -------------------------------- *)

\* Longest numeric string drawn as an input of normNumber.
MaxNumLen == 7

\* Most comment blocks the page ever holds.
MaxBlocks == 2

\* Most scroll ticks (onTick calls) of one autoScrollComments pass.
MaxTicks == 1

(* ---------------------------- characters ------------------------------ *)

Digits == <<"0", "1", "2", "3", "4", "5", "6", "7", "8", "9">>

UpperLetters ==
  <<"A", "B", "C", "D", "E", "F", "G", "H", "I", "J", "K", "L", "M", "N",
    "O", "P", "Q", "R", "S", "T", "U", "V", "W", "X", "Y", "Z", "S,", "U:">>

LowerLetters ==
  <<"a", "b", "c", "d", "e", "f", "g", "h", "i", "j", "k", "l", "m", "n",
    "o", "p", "q", "r", "s", "t", "u", "v", "w", "x", "y", "z", "s,", "u:">>

Range(f) == {f[i] : i \in DOMAIN f}

IsDigit(c) == c \in Range(Digits)

DigitVal(c) == (CHOOSE i \in DOMAIN Digits : Digits[i] = c) - 1

\* The regex class \s (and what String.prototype.trim removes).
IsSpace(c) == c \in {" ", "LF", "NBSP", "NNBSP"}

\* The regex class \w restricted to the characters of the model.
IsWordChar(c) ==
  \/ IsDigit(c)
  \/ c = "_"
  \/ \E i \in 1..26 : c = UpperLetters[i] \/ c = LowerLetters[i]

toLowerCase(c) ==
  IF c \in Range(UpperLetters)
    THEN LowerLetters[CHOOSE i \in DOMAIN UpperLetters : UpperLetters[i] = c]
    ELSE c

toUpperCase(c) ==
  IF c \in Range(LowerLetters)
    THEN UpperLetters[CHOOSE i \in DOMAIN LowerLetters : LowerLetters[i] = c]
    ELSE c

LowerStr(s) == [i \in DOMAIN s |-> toLowerCase(s[i])]

UpperStr(s) == [i \in DOMAIN s |-> toUpperCase(s[i])]

\* s.slice(from - 1) in 1-based positions.
Drop(s, from) == SubSeq(s, from, Len(s))

Take(s, n) == IF Len(s) <= n THEN s ELSE SubSeq(s, 1, n)

RECURSIVE TrimLeft(_)
TrimLeft(s) ==
  IF s # <<>> /\ IsSpace(s[1]) THEN TrimLeft(Tail(s)) ELSE s

RECURSIVE TrimRight(_)
TrimRight(s) ==
  IF s # <<>> /\ IsSpace(s[Len(s)])
    THEN TrimRight(SubSeq(s, 1, Len(s) - 1))
    ELSE s

\* String.prototype.trim
Trim(s) == TrimRight(TrimLeft(s))

\* s.replace(/X/g, '') for a character class X given as a set.
RemoveChars(s, X) == SelectSeq(s, LAMBDA c : c \notin X)

\* Whether pat occurs in s at position p (case-sensitive).
OccursAt(s, pat, p) ==
  /\ p >= 1
  /\ p + Len(pat) - 1 <= Len(s)
  /\ \A j \in 1..Len(pat) : s[p + j - 1] = pat[j]

\* String.prototype.includes
Includes(s, pat) == \E p \in 1..(Len(s) + 1) : OccursAt(s, pat, p)

\* Case-insensitive occurrence, as the regex flag i compares characters.
OccursAtI(s, pat, p) ==
  /\ p >= 1
  /\ p + Len(pat) - 1 <= Len(s)
  /\ \A j \in 1..Len(pat) : toUpperCase(s[p + j - 1]) = toUpperCase(pat[j])

\* The first position at or after p holding no white space (Len(s)+1 if none).
SkipSpaces(s, p) ==
  IF p > Len(s) THEN p
  ELSE IF \A i \in p..Len(s) : IsSpace(s[i]) THEN Len(s) + 1
  ELSE CHOOSE q \in p..Len(s) :
         ~IsSpace(s[q]) /\ \A r \in p..(q - 1) : IsSpace(s[r])

\* The first position at or after p holding no digit.
SkipDigits(s, p) ==
  IF p > Len(s) THEN p
  ELSE IF \A i \in p..Len(s) : IsDigit(s[i]) THEN Len(s) + 1
  ELSE CHOOSE q \in p..Len(s) :
         ~IsDigit(s[q]) /\ \A r \in p..(q - 1) : IsDigit(s[r])

AllDigits(s, from, to) == \A i \in from..to : i <= Len(s) /\ IsDigit(s[i])

(* ------------------------------ numbers ------------------------------- *)

NaN == [fin |-> FALSE, m |-> 0, e |-> 0]

RECURSIVE Pow10(_)
Pow10(n) == IF n = 0 THEN 1 ELSE 10 * Pow10(n - 1)

\* The decimal m / 10^e, normalised.
RECURSIVE Dec(_, _)
Dec(m, e) ==
  IF e > 0 /\ m % 10 = 0 THEN Dec(m \div 10, e - 1)
  ELSE [fin |-> TRUE, m |-> m, e |-> e]

isFinite(v) == v.fin

Max(a, b) == IF a >= b THEN a ELSE b

\* a + b
NumAdd(a, b) ==
  IF ~a.fin \/ ~b.fin THEN NaN
  ELSE LET e == Max(a.e, b.e)
       IN  Dec(a.m * Pow10(e - a.e) + b.m * Pow10(e - b.e), e)

\* a * k for a natural k
NumTimes(a, k) == IF ~a.fin THEN NaN ELSE Dec(a.m * k, a.e)

\* The value of a run of digits.
RECURSIVE DigitsValue(_)
DigitsValue(ds) ==
  IF ds = <<>> THEN 0
  ELSE 10 * DigitsValue(SubSeq(ds, 1, Len(ds) - 1)) + DigitVal(ds[Len(ds)])

\* The decimal digits of a natural number.
RECURSIVE NatToString(_)
NatToString(n) ==
  IF n < 10 THEN <<Digits[n + 1]>>
  ELSE NatToString(n \div 10) \o <<Digits[(n % 10) + 1]>>

\* The last e digits of n, with leading zeros.
RECURSIVE FracToString(_, _)
FracToString(n, e) ==
  IF e = 0 THEN <<>>
  ELSE FracToString(n \div 10, e - 1) \o <<Digits[(n % 10) + 1]>>

\* Number -> string (template literal / String(v)) of a parsed amount.
NumToString(v) ==
  IF ~v.fin THEN <<"N", "a", "N">>
  ELSE IF v.e = 0 THEN NatToString(v.m)
  ELSE NatToString(v.m \div Pow10(v.e)) \o <<".">>
         \o FracToString(v.m % Pow10(v.e), v.e)

\* Infinity: not finite, and not NaN.
Infinity == [fin |-> FALSE, m |-> 1, e |-> 0]

\* The digits of 2^1024 - 2^970, half-way between the largest finite
\* double and 2^1024: a decimal literal rounds to Infinity exactly when its
\* value is at least this number.
FloatOverflowFrom ==
  <<"1", "7", "9", "7", "6", "9", "3", "1", "3", "4", "8", "6", "2", "3",
    "1", "5", "8", "0", "7", "9", "3", "7", "2", "8", "9", "7", "1", "4",
    "0", "5", "3", "0", "3", "4", "1", "5", "0", "7", "9", "9", "3", "4",
    "1", "3", "2", "7", "1", "0", "0", "3", "7", "8", "2", "6", "9", "3",
    "6", "1", "7", "3", "7", "7", "8", "9", "8", "0", "4", "4", "4", "9",
    "6", "8", "2", "9", "2", "7", "6", "4", "7", "5", "0", "9", "4", "6",
    "6", "4", "9", "0", "1", "7", "9", "7", "7", "5", "8", "7", "2", "0",
    "7", "0", "9", "6", "3", "3", "0", "2", "8", "6", "4", "1", "6", "6",
    "9", "2", "8", "8", "7", "9", "1", "0", "9", "4", "6", "5", "5", "5",
    "5", "4", "7", "8", "5", "1", "9", "4", "0", "4", "0", "2", "6", "3",
    "0", "6", "5", "7", "4", "8", "8", "6", "7", "1", "5", "0", "5", "8",
    "2", "0", "6", "8", "1", "9", "0", "8", "9", "0", "2", "0", "0", "0",
    "7", "0", "8", "3", "8", "3", "6", "7", "6", "2", "7", "3", "8", "5",
    "4", "8", "4", "5", "8", "1", "7", "7", "1", "1", "5", "3", "1", "7",
    "6", "4", "4", "7", "5", "7", "3", "0", "2", "7", "0", "0", "6", "9",
    "8", "5", "5", "5", "7", "1", "3", "6", "6", "9", "5", "9", "6", "2",
    "2", "8", "4", "2", "9", "1", "4", "8", "1", "9", "8", "6", "0", "8",
    "3", "4", "9", "3", "6", "4", "7", "5", "2", "9", "2", "7", "1", "9",
    "0", "7", "4", "1", "6", "8", "4", "4", "4", "3", "6", "5", "5", "1",
    "0", "7", "0", "4", "3", "4", "2", "7", "1", "1", "5", "5", "9", "6",
    "9", "9", "5", "0", "8", "0", "9", "3", "0", "4", "2", "8", "8", "0",
    "1", "7", "7", "9", "0", "4", "1", "7", "4", "4", "9", "7", "7", "9",
    "2">>

\* ds without its leading zeros.
RECURSIVE StripZeros(_)
StripZeros(ds) ==
  IF ds # <<>> /\ Head(ds) = "0" THEN StripZeros(Tail(ds)) ELSE ds

\* The natural number written ds is at least FloatOverflowFrom.
Overflows(ds) ==
  LET a == StripZeros(ds)
      b == FloatOverflowFrom
  IN  \/ Len(a) > Len(b)
      \/ /\ Len(a) = Len(b)
         /\ \/ a = b
            \/ \E i \in DOMAIN a :
                 /\ DigitVal(a[i]) > DigitVal(b[i])
                 /\ \A j \in 1..(i - 1) : a[j] = b[j]

\* parseFloat: leading white space skipped, then the longest prefix
\* digits [. digits]; NaN when that prefix holds no digit, Infinity when
\* its value rounds beyond the largest double.  Finite values are exact
\* decimals; the run draws none between 2^31 and the overflow.
parseFloat(str) ==
  LET s  == TrimLeft(str)
      i  == SkipDigits(s, 1)
      j  == IF i <= Len(s) /\ s[i] = "." THEN SkipDigits(s, i + 1) ELSE i
      ip == SubSeq(s, 1, i - 1)
      fp == IF j > i THEN SubSeq(s, i + 1, j - 1) ELSE <<>>
  IN  IF ip = <<>> /\ fp = <<>> THEN NaN
      ELSE IF Overflows(ip) THEN Infinity
      ELSE Dec(DigitsValue(ip \o fp), Len(fp))

\* round2(n) = Math.round(n * 100) / 100; Math.round rounds halves up.
round2(n) ==
  IF ~n.fin THEN NaN
  ELSE IF n.e <= 2 THEN n
  ELSE LET d == Pow10(n.e - 2)
       IN  Dec((2 * n.m + d) \div (2 * d), 2)

(* --------------------------- Amount parser ---------------------------- *)

\* normalizeCurrency without the rows of the three-character symbols.
normalizeCurrencyShort(c) ==
  IF c = <<"LIRA">> \/ c = <<"T", "L">> \/ c = <<"T", "R", "Y">>
    THEN <<"T", "R", "Y">>
  ELSE IF c = <<"$">> \/ c = <<"U", "S", "D">> THEN <<"U", "S", "D">>
  ELSE IF c = <<"EURO">> \/ c = <<"E", "U", "R">> THEN <<"E", "U", "R">>
  ELSE IF c = <<"POUND">> \/ c = <<"G", "B", "P">> THEN <<"G", "B", "P">>
  ELSE IF c = <<"YEN">> \/ c = <<"J", "P", "Y">> THEN <<"J", "P", "Y">>
  ELSE IF c = <<"RUPEE">> \/ c = <<"I", "N", "R">> THEN <<"I", "N", "R">>
  ELSE IF c = <<"WON">> \/ c = <<"K", "R", "W">> THEN <<"K", "R", "W">>
  ELSE IF c = <<"DONG">> \/ c = <<"V", "N", "D">> THEN <<"V", "N", "D">>
  ELSE IF c = <<"NAIRA">> \/ c = <<"N", "G", "N">> THEN <<"N", "G", "N">>
  ELSE IF c = <<"PESO">> \/ c = <<"P", "H", "P">> THEN <<"P", "H", "P">>
  ELSE IF c = <<"R", "$">> \/ c = <<"B", "R", "L">> THEN <<"B", "R", "L">>
  ELSE IF c = <<"A", "$">> \/ c = <<"A", "U", "D">> THEN <<"A", "U", "D">>
  ELSE IF c = <<"C", "$">> \/ c = <<"C", "A", "D">> THEN <<"C", "A", "D">>
  ELSE c

\* normalizeCurrency(c): symbol or code -> canonical code, others unchanged.
normalizeCurrency(c) ==
  IF c = <<"LIRA">> \/ c = <<"T", "L">> \/ c = <<"T", "R", "Y">>
    THEN <<"T", "R", "Y">>
  ELSE IF c = <<"$">> \/ c = <<"U", "S", "D">> THEN <<"U", "S", "D">>
  ELSE IF c = <<"EURO">> \/ c = <<"E", "U", "R">> THEN <<"E", "U", "R">>
  ELSE IF c = <<"POUND">> \/ c = <<"G", "B", "P">> THEN <<"G", "B", "P">>
  ELSE IF c = <<"YEN">> \/ c = <<"J", "P", "Y">> THEN <<"J", "P", "Y">>
  ELSE IF c = <<"RUPEE">> \/ c = <<"I", "N", "R">> THEN <<"I", "N", "R">>
  ELSE IF c = <<"WON">> \/ c = <<"K", "R", "W">> THEN <<"K", "R", "W">>
  ELSE IF c = <<"DONG">> \/ c = <<"V", "N", "D">> THEN <<"V", "N", "D">>
  ELSE IF c = <<"NAIRA">> \/ c = <<"N", "G", "N">> THEN <<"N", "G", "N">>
  ELSE IF c = <<"PESO">> \/ c = <<"P", "H", "P">> THEN <<"P", "H", "P">>
  ELSE IF c = <<"R", "$">> \/ c = <<"B", "R", "L">> THEN <<"B", "R", "L">>
  ELSE IF c = <<"A", "$">> \/ c = <<"A", "U", "D">> THEN <<"A", "U", "D">>
  ELSE IF c = <<"C", "$">> \/ c = <<"C", "A", "D">> THEN <<"C", "A", "D">>
  ELSE IF c = <<"H", "K", "$">> THEN <<"H", "K", "D">>
  ELSE IF c = <<"N", "T", "$">> THEN <<"T", "W", "D">>
  ELSE c

\* The word boundary \b at position p of s (between s[p-1] and s[p]).
WordBoundary(s, p) ==
  LET before == p > 1 /\ p - 1 <= Len(s) /\ IsWordChar(s[p - 1])
      after  == p >= 1 /\ p <= Len(s) /\ IsWordChar(s[p])
  IN  before # after

\* s.match(/^(\d+)\s*bin\b/) !== null
binMatch(s) ==
  LET i == SkipDigits(s, 1)
      j == SkipSpaces(s, i)
  IN  /\ i > 1
      /\ OccursAt(s, <<"b", "i", "n">>, j)
      /\ WordBoundary(s, j + 3)

\* Whether /\s*bin\b/ matches s starting at position p.
BinAt(s, p) ==
  LET q == SkipSpaces(s, p)
  IN  OccursAt(s, <<"b", "i", "n">>, q) /\ WordBoundary(s, q + 3)

\* s.replace(/\s*bin\b/, ''): the leftmost match is removed.
StripBin(s) ==
  IF \E p \in 1..Len(s) : BinAt(s, p)
    THEN LET p == CHOOSE x \in 1..Len(s) :
                    BinAt(s, x) /\ \A y \in 1..(x - 1) : ~BinAt(s, y)
             q == SkipSpaces(s, p)
         IN  SubSeq(s, 1, p - 1) \o Drop(s, q + 3)
    ELSE s

\* s.lastIndexOf(c), 1-based; 0 when c does not occur (-1 in the source).
lastIndexOf(s, c) ==
  IF \E i \in 1..Len(s) : s[i] = c
    THEN CHOOSE i \in 1..Len(s) : s[i] = c /\ \A j \in (i + 1)..Len(s) : s[j] # c
    ELSE 0

\* EndsWithFraction accepting up to three trailing digits.
EndsWithFractionUpTo3(s, c) ==
  \E k \in 1..3 :
    /\ Len(s) - k >= 1
    /\ s[Len(s) - k] = c
    /\ AllDigits(s, Len(s) - k + 1, Len(s))

\* /<c>\d{1,2}$/.test(s)
EndsWithFraction(s, c) ==
  \E k \in 1..2 :
    /\ Len(s) - k >= 1
    /\ s[Len(s) - k] = c
    /\ AllDigits(s, Len(s) - k + 1, Len(s))

\* decimalSep with the comparison of lastDot and lastComma turned round.
decimalSepFirst(s) ==
  LET lastDot   == lastIndexOf(s, ".")
      lastComma == lastIndexOf(s, ",")
  IN  IF lastDot # 0 /\ lastComma # 0
        THEN (IF lastDot < lastComma THEN "." ELSE ",")
      ELSE IF lastDot # 0
        THEN (IF EndsWithFraction(s, ".") THEN "." ELSE "")
      ELSE IF lastComma # 0
        THEN (IF EndsWithFraction(s, ",") THEN "," ELSE "")
      ELSE ""

\* The decimal separator normNumber settles on: ".", "," or "" (null).
decimalSep(s) ==
  LET lastDot   == lastIndexOf(s, ".")
      lastComma == lastIndexOf(s, ",")
  IN  IF lastDot # 0 /\ lastComma # 0
        THEN (IF lastDot > lastComma THEN "." ELSE ",")
      ELSE IF lastDot # 0
        THEN (IF EndsWithFraction(s, ".") THEN "." ELSE "")
      ELSE IF lastComma # 0
        THEN (IF EndsWithFraction(s, ",") THEN "," ELSE "")
      ELSE ""

\* The string normNumber hands to parseFloat, from the string left after
\* the "bin" suffix is taken off.
Cleaned(s) ==
  LET sep == decimalSep(s)
  IN  IF sep # ""
        THEN LET other == IF sep = "." THEN "," ELSE "."
                 s1 == RemoveChars(s, {other})
                 s2 == IF sep = ","
                         THEN [i \in DOMAIN s1 |->
                                 IF s1[i] = "," THEN "." ELSE s1[i]]
                         ELSE s1
             IN  RemoveChars(s2, {" ", "LF", "NBSP", "NNBSP"})
        ELSE RemoveChars(s, {".", ",", " ", "LF", "NBSP", "NNBSP"})

\* normNumber(str)
normNumber(str) ==
  IF str = <<>> THEN NaN
  ELSE LET s0  == Trim(LowerStr(str))
           s1  == [i \in DOMAIN s0 |->
                     IF s0[i] \in {"NBSP", "NNBSP"} THEN " " ELSE s0[i]]
           bin == binMatch(s1)
           s2  == IF bin THEN Trim(StripBin(s1)) ELSE s1
           multiplier == IF bin THEN 1000 ELSE 1
           val == parseFloat(Cleaned(s2))
       IN  IF isFinite(val) THEN NumTimes(val, multiplier) ELSE NaN

(* ------------------------ Recognition grammar ------------------------- *)

THANKS_KEYWORDS ==
  <<<<"s", "u", "p", "e", "r", " ", "t", "h", "a", "n", "k", "s">>,
    <<"s", "u", "p", "e", "r", "-", "t", "h", "a", "n", "k", "s">>,
    <<"s", "u", "p", "e", "r", "t", "h", "a", "n", "k", "s">>,
    <<"s", "u:", "p", "e", "r", " ", "t", "e", "s,", "e", "k", "k", "u:", "r">>,
    <<"s", "u:", "p", "e", "r", " ", "t", "e", "s,", "e", "k", "k", "u:",
  "r", "l", "e", "r">>,
    <<"s", "u:", "p", "e", "r", "-", "t", "e", "s,", "e", "k", "k", "u:", "r">>>>

CURRENCY_SYMBOLS ==
  <<<<"LIRA">>, <<"T", "L">>, <<"T", "R", "Y">>,
    <<"$">>, <<"U", "S", "D">>, <<"EURO">>,
    <<"E", "U", "R">>, <<"POUND">>, <<"G", "B", "P">>,
    <<"YEN">>, <<"J", "P", "Y">>, <<"RUPEE">>,
    <<"I", "N", "R">>, <<"WON">>, <<"K", "R", "W">>,
    <<"DONG">>, <<"V", "N", "D">>, <<"NAIRA">>,
    <<"N", "G", "N">>, <<"PESO">>, <<"P", "H", "P">>,
    <<"R", "$">>, <<"B", "R", "L">>, <<"A", "$">>,
    <<"A", "U", "D">>, <<"C", "$">>, <<"C", "A", "D">>,
    <<"H", "K", "$">>, <<"N", "T", "$">>>>

\* The alternation (CURRENCY_SYMBOLS.join('|')) tried at position p of t,
\* flag i: the index of the first alternative that matches, 0 if none.
CurAt(t, p) ==
  LET hits == {k \in DOMAIN CURRENCY_SYMBOLS :
                 OccursAtI(t, CURRENCY_SYMBOLS[k], p)}
  IN  IF hits = {} THEN 0
      ELSE CHOOSE k \in hits : \A j \in hits : k <= j

\* The class [.,  \s] of NUM_PATTERN.
IsNumSep(c) == c \in {".", ","} \/ IsSpace(c)

\* (?:[.,  \s]?\d{3})*(?:[.,]\d{1,2})? matching t[i..e-1] exactly.
RECURSIVE NumRest(_, _, _)
NumRest(t, i, e) ==
  \/ i = e
  \/ /\ i + 4 <= e
     /\ IsNumSep(t[i])
     /\ AllDigits(t, i + 1, i + 3)
     /\ NumRest(t, i + 4, e)
  \/ /\ i + 3 <= e
     /\ AllDigits(t, i, i + 2)
     /\ NumRest(t, i + 3, e)
  \/ /\ i < e
     /\ t[i] \in {".", ","}
     /\ e - i - 1 \in 1..2
     /\ AllDigits(t, i + 1, e - 1)

\* First alternative of NUM_PATTERN matching t[p..e-1] exactly:
\* \d+(?:[.,  \s]?\d{3})*(?:[.,]\d{1,2})?
NumGrouped(t, p, e) ==
  \E k \in 1..(e - p) : AllDigits(t, p, p + k - 1) /\ NumRest(t, p + k, e)

\* Second alternative of NUM_PATTERN matching t[p..e-1] exactly: \d+\s*bin
NumBin(t, p, e) ==
  LET i == SkipDigits(t, p)
      j == SkipSpaces(t, i)
  IN  i > p /\ OccursAtI(t, <<"b", "i", "n">>, j) /\ e = j + 3

\* NUM_PATTERN matching the whole of the string s.
NUM_PATTERN(s) ==
  NumGrouped(s, 1, Len(s) + 1) \/ NumBin(s, 1, Len(s) + 1)

\* Where the greedy (?:[.,  \s]?\d{3})* stops, from position i.
RECURSIVE GroupsEnd(_, _)
GroupsEnd(t, i) ==
  IF i <= Len(t) /\ IsNumSep(t[i]) /\ AllDigits(t, i + 1, i + 3)
    THEN GroupsEnd(t, i + 4)
  ELSE IF AllDigits(t, i, i + 2) THEN GroupsEnd(t, i + 3)
  ELSE i

\* Where the greedy (?:[.,]\d{1,2})? stops, from position i.
FractionEnd(t, i) ==
  IF i <= Len(t) /\ t[i] \in {".", ","} /\ AllDigits(t, i + 1, i + 1)
    THEN (IF AllDigits(t, i + 2, i + 2) THEN i + 3 ELSE i + 2)
    ELSE i

\* NUM_PATTERN as the last item of the pattern, from a digit at q: nothing
\* follows it, so the first path taken (every quantifier greedy) is the match
\* and the second alternative is never tried.
GreedyNumEnd(t, q) == FractionEnd(t, GroupsEnd(t, SkipDigits(t, q)))

NoMatch == [start |-> 0, end |-> 0, cur |-> <<>>, num |-> <<>>]

\* (CUR)\s*(NUM) at position p: groups m[1], m[2].
CurrencyFirstAt(t, p) ==
  LET k == CurAt(t, p)
      q == IF k = 0 THEN 0 ELSE SkipSpaces(t, p + Len(CURRENCY_SYMBOLS[k]))
  IN  IF k # 0 /\ q <= Len(t) /\ IsDigit(t[q])
        THEN LET e == GreedyNumEnd(t, q)
             IN  [start |-> p, end |-> e,
                  cur |-> SubSeq(t, p, p + Len(CURRENCY_SYMBOLS[k]) - 1),
                  num |-> SubSeq(t, q, e - 1)]
        ELSE NoMatch

\* The ends e of a grouped number from p after which \s*(CUR) matches.
GroupedEnds(t, p) ==
  {e \in (p + 1)..(Len(t) + 1) :
     NumGrouped(t, p, e) /\ CurAt(t, SkipSpaces(t, e)) # 0}

\* The ends e of a "bin" number from p after which \s*(CUR) matches.
BinEnds(t, p) ==
  {e \in (p + 1)..(Len(t) + 1) :
     NumBin(t, p, e) /\ CurAt(t, SkipSpaces(t, e)) # 0}

\* (NUM)\s*((CUR)) at position p: groups m[3], m[4].  A number and the
\* currency after it share no character, so at most one end of the number
\* lets the currency match; the grouped alternative is tried before "bin".
NumberFirstAt(t, p) ==
  LET grouped == GroupedEnds(t, p)
      bin     == BinEnds(t, p)
      ends    == IF grouped # {} THEN grouped ELSE bin
  IN  IF p <= Len(t) /\ IsDigit(t[p]) /\ ends # {}
        THEN LET e == CHOOSE x \in ends : \A y \in ends : y <= x
                 q == SkipSpaces(t, e)
                 k == CurAt(t, q)
             IN  [start |-> p, end |-> q + Len(CURRENCY_SYMBOLS[k]),
                  cur |-> SubSeq(t, q, q + Len(CURRENCY_SYMBOLS[k]) - 1),
                  num |-> SubSeq(t, p, e - 1)]
        ELSE NoMatch

\* CURRENCY_RE tried at position p: the first alternative, then the second.
MatchAt(t, p) ==
  IF CurrencyFirstAt(t, p) # NoMatch THEN CurrencyFirstAt(t, p)
  ELSE NumberFirstAt(t, p)

\* CURRENCY_RE.exec(t) with lastIndex = from - 1: the leftmost match.
RECURSIVE exec(_, _)
exec(t, from) ==
  IF from > Len(t) THEN NoMatch
  ELSE IF MatchAt(t, from) # NoMatch THEN MatchAt(t, from)
  ELSE exec(t, from + 1)

\* Every match of the loop while ((m = CURRENCY_RE.exec(text)) !== null).
RECURSIVE AllMatches(_, _)
AllMatches(t, from) ==
  LET m == exec(t, from)
  IN  IF m = NoMatch THEN <<>> ELSE <<m>> \o AllMatches(t, m.end)

(* ------------------------ Detection predicate ------------------------- *)

\* A comment block (a DOM element) as extractFindingsInPage reads it:
\*   text    el.innerText || el.textContent
\*   badge   whether el.querySelector(<badge selectors>) finds an element
\*   author  textContent of the author element ("" when there is none)
\*   content textContent of the content element (or of el itself)
Block(text, badge, author, content) ==
  [text |-> text, badge |-> badge, author |-> author, content |-> content]

\* THANKS_KEYWORDS.some(k => t.includes(k))
HasKeyword(t) ==
  \E k \in DOMAIN THANKS_KEYWORDS : Includes(t, THANKS_KEYWORDS[k])

\* The codes of the co-occurrence test /[...]|TL|TRY|USD|EUR|GBP|JPY/i.
DetectCodes ==
  {<<"T", "L">>, <<"T", "R", "Y">>, <<"U", "S", "D">>,
   <<"E", "U", "R">>, <<"G", "B", "P">>, <<"J", "P", "Y">>}

\* /[<euro>$<pound><yen><lira>]|TL|TRY|USD|EUR|GBP|JPY/i.test(fullText)
HasCurrencyMarker(fullText) ==
  \E p \in 1..Len(fullText) :
    \/ fullText[p] \in {"EURO", "$", "POUND", "YEN", "LIRA"}
    \/ \E c \in DetectCodes : OccursAtI(fullText, c, p)

\* /\bthanks|tes,ekku:r/i.test(t)
HasThanksWord(t) ==
  \E p \in 1..Len(t) :
    \/ WordBoundary(t, p) /\ OccursAtI(t, <<"t", "h", "a", "n", "k", "s">>, p)
    \/ OccursAtI(t, <<"t", "e", "s,", "e", "k", "k", "u:", "r">>, p)

\* isSuperThanksBlock with the co-occurrence test an "or".
isSuperThanksBlockEither(el, fullText) ==
  LET t == LowerStr(fullText)
  IN  \/ HasKeyword(t)
      \/ el.badge
      \/ HasCurrencyMarker(fullText)
      \/ HasThanksWord(t)

\* isSuperThanksBlock(el, fullText)
isSuperThanksBlock(el, fullText) ==
  LET t == LowerStr(fullText)
  IN  \/ HasKeyword(t)
      \/ el.badge
      \/ HasCurrencyMarker(fullText) /\ HasThanksWord(t)

(* ----------------------------- Extraction ----------------------------- *)

\* Longest snippet kept: slice(0, 200).
SnippetMax == 200

\* s.replace(/\s+/g, ' ')
CollapseSpaces(s) ==
  LET first == SelectSeq([i \in 1..Len(s) |-> i],
                 LAMBDA i : ~IsSpace(s[i]) \/ i = 1 \/ ~IsSpace(s[i - 1]))
  IN  [k \in DOMAIN first |->
         IF IsSpace(s[first[k]]) THEN " " ELSE s[first[k]]]

\* getAuthorAndSnippet(el)
getAuthorAndSnippet(el) ==
  [author  |-> Trim(el.author),
   snippet |-> Take(CollapseSpaces(Trim(el.content)), SnippetMax)]

\* The body of the match loop for one match m of block el: the finding
\* pushed to results, as a sequence of zero or one finding.
FindingOfMatch(el, m) ==
  LET currency == normalizeCurrency(RemoveChars(UpperStr(m.cur),
                                                {" ", "LF", "NBSP", "NNBSP"}))
      numStr   == Trim(m.num)
      val      == normNumber(numStr)
      meta     == getAuthorAndSnippet(el)
  IN  IF currency # <<>> /\ isFinite(val)
        THEN <<[currency |-> currency, amount |-> val,
                author |-> meta.author, snippet |-> meta.snippet]>>
        ELSE <<>>

\* FindingsOfMatches leaving the loop at the first match it cannot parse.
RECURSIVE FindingsOfMatchesAbort(_, _)
FindingsOfMatchesAbort(el, ms) ==
  IF ms = <<>> THEN <<>>
  ELSE IF FindingOfMatch(el, Head(ms)) = <<>> THEN <<>>
  ELSE FindingOfMatch(el, Head(ms)) \o FindingsOfMatchesAbort(el, Tail(ms))

RECURSIVE FindingsOfMatches(_, _)
FindingsOfMatches(el, ms) ==
  IF ms = <<>> THEN <<>>
  ELSE FindingOfMatch(el, Head(ms)) \o FindingsOfMatches(el, Tail(ms))

\* One iteration of the block loop of extractFindingsInPage.
FindingsOfBlock(el) ==
  LET text == Trim(el.text)
  IN  IF text = <<>> THEN <<>>
      ELSE IF ~isSuperThanksBlock(el, text) THEN <<>>
      ELSE FindingsOfMatches(el, AllMatches(text, 1))

(* ------------------------ Live collection layer ----------------------- *)

\* hashFinding(f)
hashFinding(f) ==
  f.currency \o <<"|">> \o NumToString(f.amount) \o <<"|">>
    \o Trim(f.author) \o <<"|">> \o Trim(f.snippet)

\* A Map<string, number> is the sequence of its entries <<key, value>> in
\* insertion order.
MapHas(map, key) == \E i \in DOMAIN map : map[i][1] = key

\* map.get(key) || 0
MapGetOr0(map, key) ==
  IF MapHas(map, key)
    THEN map[CHOOSE i \in DOMAIN map : map[i][1] = key][2]
    ELSE Dec(0, 0)

\* map.set(key, value)
MapSet(map, key, value) ==
  IF MapHas(map, key)
    THEN [i \in DOMAIN map |->
            IF map[i][1] = key THEN <<key, value>> ELSE map[i]]
    ELSE Append(map, <<key, value>>)

MapKeys(map) == {map[i][1] : i \in DOMAIN map}

\* The rank of a character in code-unit order, for the characters that
\* occur in currency codes.
CharRank(c) ==
  IF c \in Range(UpperLetters)
    THEN CHOOSE i \in DOMAIN UpperLetters : UpperLetters[i] = c
    ELSE 0

\* a.localeCompare(b) < 0 for strings of upper-case letters.
RECURSIVE localeLess(_, _)
localeLess(a, b) ==
  IF b = <<>> THEN FALSE
  ELSE IF a = <<>> THEN TRUE
  ELSE IF CharRank(a[1]) # CharRank(b[1]) THEN CharRank(a[1]) < CharRank(b[1])
  ELSE localeLess(Tail(a), Tail(b))

\* [...map.entries()].sort((a, b) => a[0].localeCompare(b[0]))
RECURSIVE SortedEntries(_)
SortedEntries(map) ==
  IF map = <<>> THEN <<>>
  ELSE LET i == CHOOSE x \in DOMAIN map :
                  \A y \in DOMAIN map : ~localeLess(map[y][1], map[x][1])
           rest == [j \in 1..(Len(map) - 1) |->
                      IF j < i THEN map[j] ELSE map[j + 1]]
       IN  <<map[i]>> \o SortedEntries(rest)

\* mapToSortedObject without the sort.
mapToSortedObjectUnsorted(map) ==
  [i \in DOMAIN map |-> <<map[i][1], round2(map[i][2])>>]

\* mapToSortedObject(map): the object as its <<key, value>> properties in
\* insertion order.
mapToSortedObject(map) ==
  LET es == SortedEntries(map)
  IN  [i \in DOMAIN es |-> <<es[i][1], round2(es[i][2])>>]

\* printLiveTotals(): the parts "<cur>: <round2(amt)>" of the console line.
printLiveTotals(map) ==
  LET es == SortedEntries(map)
  IN  [i \in DOMAIN es |-> <<es[i][1], round2(es[i][2])>>]

\* IngestOne with the total overwritten instead of accumulated.
IngestOneOverwrite(st, f) ==
  LET h == hashFinding(f)
  IN  IF h \in st.seen THEN st
      ELSE [seen       |-> st.seen \cup {h},
            findings   |-> Append(st.findings, f),
            streamed   |-> Append(st.streamed, f),
            liveTotals |-> MapSet(st.liveTotals, f.currency, f.amount)]

\* IngestOne without the test seen.has(h).
IngestOneNoCheck(st, f) ==
  LET h == hashFinding(f)
  IN  [seen       |-> st.seen \cup {h},
       findings   |-> Append(st.findings, f),
       streamed   |-> Append(st.streamed, f),
       liveTotals |-> MapSet(st.liveTotals, f.currency,
                        NumAdd(MapGetOr0(st.liveTotals, f.currency),
                               f.amount))]

\* IngestOne without seen.add(h).
IngestOneNoAdd(st, f) ==
  LET h == hashFinding(f)
  IN  IF h \in st.seen THEN st
      ELSE [seen       |-> st.seen,
            findings   |-> Append(st.findings, f),
            streamed   |-> Append(st.streamed, f),
            liveTotals |-> MapSet(st.liveTotals, f.currency,
                             NumAdd(MapGetOr0(st.liveTotals, f.currency),
                                    f.amount))]

\* IngestOne with findings.unshift(f) in the place of findings.push(f).
IngestOnePrepend(st, f) ==
  LET h == hashFinding(f)
  IN  IF h \in st.seen THEN st
      ELSE [seen       |-> st.seen \cup {h},
            findings   |-> <<f>> \o st.findings,
            streamed   |-> Append(st.streamed, f),
            liveTotals |-> MapSet(st.liveTotals, f.currency,
                             NumAdd(MapGetOr0(st.liveTotals, f.currency),
                                    f.amount))]

\* One iteration of the loop of collectAndReport, for finding f, on
\* st = [seen, findings, streamed, liveTotals]; streamed holds the findings
\* the call has logged to the console (newCount is its length).
IngestOne(st, f) ==
  LET h == hashFinding(f)
  IN  IF h \in st.seen THEN st
      ELSE [seen       |-> st.seen \cup {h},
            findings   |-> Append(st.findings, f),
            streamed   |-> Append(st.streamed, f),
            liveTotals |-> MapSet(st.liveTotals, f.currency,
                             NumAdd(MapGetOr0(st.liveTotals, f.currency),
                                    f.amount))]

\* for (const f of pageFindings) { ... }
RECURSIVE IngestLoop(_, _)
IngestLoop(st, fs) ==
  IF fs = <<>> THEN st ELSE IngestLoop(IngestOne(st, Head(fs)), Tail(fs))

(* ------------------------------ The page ------------------------------ *)

Ali == <<"@", "a", "l", "i">>

Bob == <<"@", "b", "o", "b">>

Cem == <<"@", "c", "e", "m">>

\* A comment whose element text is its content text.
Comment(author, text, badge) == Block(text, badge, author, text)

ScenarioLira ==
  Comment(Ali,
    <<"S", "u", "p", "e", "r", " ", "T", "h", "a", "n", "k", "s", "!", " ",
      "LIRA", "2", ".", "1", "9", "9", ",", "9", "9", " ", "h", "a", "r",
      "i", "k", "a", " ", "v", "i", "d", "e", "o">>, FALSE)

ScenarioDollar ==
  Comment(Bob,
    <<"t", "h", "a", "n", "k", "s", " ", "$", "5", ".", "9", "9", " ", "s",
      "u", "p", "e", "r", " ", "t", "h", "a", "n", "k", "s">>, FALSE)

\* Two comments with "|" in the author's name or in the text.
BarInAuthor ==
  Block(<<"t", "h", "a", "n", "k", "s", " ", "$", "5">>, FALSE,
        <<"a", "l", "|", "i">>, <<"t", "h", "a", "n", "k", "s", " ", "$", "5">>)

BarInText ==
  Block(<<"i", "|", "t", "h", "a", "n", "k", "s", " ", "$", "5">>, FALSE,
        <<"a", "l">>, <<"i", "|", "t", "h", "a", "n", "k", "s", " ", "$", "5">>)

\* A thread (ytd-comment-thread-renderer) with one reply shown: its text
\* holds the reply, its author and content are the top-level comment's ...
ThreadWithReply ==
  Block(
    <<"n", "i", "c", "e", " ", "v", "i", "d", "e", "o", "LF", "S", "u",
      "p", "e", "r", " ", "T", "h", "a", "n", "k", "s", " ", "EURO", "3">>,
    FALSE, Ali,
    <<"n", "i", "c", "e", " ", "v", "i", "d", "e", "o">>)

\* ... and the reply's own block (ytd-comment-view-model).
ReplyBlock ==
  Comment(Bob,
    <<"S", "u", "p", "e", "r", " ", "T", "h", "a", "n", "k", "s", " ",
      "EURO", "3">>, FALSE)

\* A run of nines one digit longer than FloatOverflowFrom.
HugeDigits == [i \in 1..(Len(FloatOverflowFrom) + 1) |-> "9"]

\* The comments of three videos.  A video about prices ...
VideoOne ==
  {ScenarioLira,
   ScenarioDollar,
   \* the same text by another author
   Comment(Cem,
    <<"t", "h", "a", "n", "k", "s", " ", "$", "5", ".", "9", "9", " ", "s",
      "u", "p", "e", "r", " ", "t", "h", "a", "n", "k", "s">>, FALSE),
   \* an ordinary price mention: no keyword, no badge, no thanks word
   Comment(Cem,
    <<"p", "r", "i", "c", "e", " ", "$", "5", " ", "o", "n", "l", "y">>, FALSE),
   \* a donation badge and the same amount twice
   Comment(Ali,
    <<"LIRA", "5", " ", "LIRA", "5">>, TRUE)}

\* ... one whose comments write their amounts in several ways ...
VideoTwo ==
  {ScenarioDollar,
   \* currency and thanks word, "bin" after the number
   Comment(Bob,
    <<"T", "h", "a", "n", "k", "s", " ", "2", " ", "b", "i", "n", " ", "T",
      "L">>, FALSE),
   \* keyword, "bin" after a leading currency
   Comment(Cem,
    <<"S", "u", "p", "e", "r", " ", "T", "h", "a", "n", "k", "s", " ",
      "LIRA", "2", " ", "b", "i", "n">>, FALSE),
   \* a thanks word with a currency outside the co-occurrence test
   Comment(Ali,
    <<"t", "h", "a", "n", "k", "s", " ", "RUPEE", "5", "0", "0">>, FALSE),
   \* a dot both as grouping and before the fraction
   Comment(Bob,
    <<"s", "u:", "p", "e", "r", " ", "t", "e", "s,", "e", "k", "k", "u:",
      "r", " ", "EURO", "1", ".", "2", "3", "4", ".", "5", "0", " ", "LF",
      " ", "7", ",", "5", " ", "E", "U", "R">>, FALSE)}

\* ... and one with a reply, names and texts with "|", and a huge amount.
VideoThree ==
  {\* an amount beyond the largest double, and an amount after it
   Comment(Cem,
    <<"S", "u", "p", "e", "r", " ", "T", "h", "a", "n", "k", "s", " ", "$">>
      \o HugeDigits \o <<" ", "EURO", "5">>, FALSE),
   BarInAuthor,
   BarInText,
   ThreadWithReply,
   ReplyBlock}

Videos == {VideoOne, VideoTwo, VideoThree}

\* The comment blocks a page may come to hold.
Catalogue == UNION Videos

\* FindingsOfBlock over the catalogue, computed once.
BlockFindings == [el \in Catalogue |-> FindingsOfBlock(el)]

\* extractFindingsInPage(), over the blocks getCommentBlocks() returns.
RECURSIVE extractFindingsInPage(_)
extractFindingsInPage(blocks) ==
  IF blocks = <<>> THEN <<>>
  ELSE (IF Head(blocks) \in Catalogue
          THEN BlockFindings[Head(blocks)]
          ELSE FindingsOfBlock(Head(blocks)))
         \o extractFindingsInPage(Tail(blocks))

(* --------------------------- State machine ---------------------------- *)

VARIABLES
  page,          \* the comment blocks of the DOM, in document order
  pc,            \* where main is: "pass1", "pass2", "final", "report", "done"
  call,          \* the running collectAndReport: "none", "evaluated", "print"
  running,       \* collectAndReport calls begun and not yet returned
  ticks,         \* onTick calls made by the current autoScrollComments
  pageFindings,  \* collectAndReport's pageFindings
  batches,       \* every pageFindings ingested so far, oldest first
  findings,      \* the findings log
  seen,          \* the set of fingerprints
  liveTotals,    \* the totals Map
  streamed,      \* the findings the last call streamed to the console
  printed,       \* the last "Live totals" line
  totalsObj,     \* main's totalsObj
  count,         \* the count written to the JSON file
  fnName,        \* the function applied on its own: its name
  fnArg,         \*   its argument
  fnDone,        \*   whether it has returned
  fnResult       \*   what it returned

vars ==
  <<page, pc, call, running, ticks, pageFindings, batches, findings, seen,
    liveTotals, streamed, printed, totalsObj, count, fnName, fnArg, fnDone,
    fnResult>>

runVars ==
  <<page, pc, call, running, ticks, pageFindings, batches, findings, seen,
    liveTotals, streamed, printed, totalsObj, count>>

fnVars == <<fnName, fnArg, fnDone, fnResult>>

\* The state main starts from: findings = [], seen = new Set(),
\* liveTotals = new Map().
RunInit ==
  /\ page = <<>>
  /\ pc = "pass1"
  /\ call = "none"
  /\ running = 0
  /\ ticks = 0
  /\ pageFindings = <<>>
  /\ batches = <<>>
  /\ findings = <<>>
  /\ seen = {}
  /\ liveTotals = <<>>
  /\ streamed = <<>>
  /\ printed = <<>>
  /\ totalsObj = <<>>
  /\ count = 0

FnIdle ==
  /\ fnName = "none"
  /\ fnArg = <<>>
  /\ fnDone = FALSE
  /\ fnResult = <<>>

Init == RunInit /\ FnIdle

\* CallReturned with the awaits left out: the caller goes on at once.
CallNotAwaited == TRUE

\* await onTick() in autoScrollComments and await collectAndReport(...) in
\* main: the caller goes on when the call it made has returned.
CallReturned == call = "none"

\* The browser renders one more comment block of the video while main
\* scrolls or waits.
\* The DOM is read by page.evaluate alone, so a block rendered while a call
\* is past its evaluate is taken as rendered right after the call.
LoadComments ==
  /\ pc \in {"pass1", "pass2", "final"}
  /\ call = "none"
  /\ Len(page) < MaxBlocks
  /\ \E v \in Videos :
       /\ \A i \in DOMAIN page : page[i] \in v
       /\ \E el \in v : page' = Append(page, el)
  /\ UNCHANGED <<pc, call, running, ticks, pageFindings, batches, findings,
                 seen, liveTotals, streamed, printed, totalsObj, count>>
  /\ UNCHANGED fnVars

\* collectAndReport up to its await: page.evaluate(extractFindingsInPage).
\* Called by onTick in a pass of autoScrollComments, or as the final
\* collection.
Evaluate ==
  /\ CallReturned
  /\ \/ pc \in {"pass1", "pass2"} /\ ticks < MaxTicks /\ ticks' = ticks + 1
     \/ pc = "final" /\ ticks' = ticks
  /\ pageFindings' = extractFindingsInPage(page)
  /\ call' = "evaluated"
  /\ running' = running + 1
  /\ UNCHANGED <<page, pc, batches, findings, seen, liveTotals, streamed,
                 printed, totalsObj, count>>
  /\ UNCHANGED fnVars

\* collectAndReport's loop over pageFindings.
Ingest ==
  /\ call = "evaluated"
  /\ LET st == IngestLoop([seen |-> seen, findings |-> findings,
                           streamed |-> <<>>, liveTotals |-> liveTotals],
                          pageFindings)
     IN  /\ seen' = st.seen
         /\ findings' = st.findings
         /\ liveTotals' = st.liveTotals
         /\ streamed' = st.streamed
         /\ call' = IF Len(st.streamed) > 0 THEN "print" ELSE "none"
         /\ running' = IF Len(st.streamed) > 0 THEN running ELSE running - 1
         /\ pc' = IF Len(st.streamed) = 0 /\ pc = "final" THEN "report" ELSE pc
  /\ batches' = Append(batches, pageFindings)
  /\ UNCHANGED <<page, ticks, pageFindings, printed, totalsObj, count>>
  /\ UNCHANGED fnVars

\* if (newCount > 0) printLiveTotals('Live totals'), and the return.
PrintTotals ==
  /\ call = "print"
  /\ printed' = printLiveTotals(liveTotals)
  /\ call' = "none"
  /\ running' = running - 1
  /\ pc' = IF pc = "final" THEN "report" ELSE pc
  /\ UNCHANGED <<page, ticks, pageFindings, batches, findings, seen,
                 liveTotals, streamed, totalsObj, count>>
  /\ UNCHANGED fnVars

\* autoScrollComments returns (deadline or minBlocks reached); main goes on.
EndPass ==
  /\ CallReturned
  /\ pc \in {"pass1", "pass2"}
  /\ pc' = IF pc = "pass1" THEN "pass2" ELSE "final"
  /\ ticks' = 0
  /\ UNCHANGED <<page, call, running, pageFindings, batches, findings, seen,
                 liveTotals, streamed, printed, totalsObj, count>>
  /\ UNCHANGED fnVars

\* main's "Prepare output": totalsObj and the JSON's count.
Report ==
  /\ pc = "report"
  /\ totalsObj' = mapToSortedObject(liveTotals)
  /\ count' = Len(findings)
  /\ pc' = "done"
  /\ UNCHANGED <<page, call, running, ticks, pageFindings, batches, findings,
                 seen, liveTotals, streamed, printed>>
  /\ UNCHANGED fnVars

Next == LoadComments \/ Evaluate \/ Ingest \/ PrintTotals \/ EndPass \/ Report

Spec == Init /\ [][Next]_vars

(* ---------------- The parser's functions on their own ----------------- *)

\* The characters numeric strings are drawn from.
NumAlphabet == {"0", "7", ".", ",", " "}

\* The numeric strings the documentation of the parser names.
NumExamples ==
  {<<"2", ".", "1", "9", "9", ",", "9", "9">>,
   <<"1", ",", "2", "3", "4", ".", "5", "6">>,
   <<"3", ".", "0", "0", "0">>,
   <<"2", ".", "1", "9", "9">>,
   <<"5", ".", "9", "9">>,
   <<"1", "0", " ", "0", "0", "0">>,
   <<"1", "0", "NBSP", "0", "0", "0">>,
   <<"1", "0", "NNBSP", "0", "0", "0">>,
   <<"2", " ", "b", "i", "n">>,
   <<"3", "b", "i", "n">>}

\* Digits, optional space, "bin".
BinExamples ==
  {d \o sp \o <<"b", "i", "n">> :
     d \in {<<"7">>, <<"7", "0">>, <<"0", "7", "7">>},
     sp \in {<<>>, <<" ">>, <<"NBSP">>}}

\* Numbers with a separator repeated, and with three digits after the last
\* of two separators.
GroupedExamples ==
  {<<"1", ".", "2", "3", "4", ".", "5", "6">>,
   <<"1", ",", "2", "3", "4", ",", "5", "6">>,
   <<"1", ",", "2", "3", "4", ".", "5", "6", "7">>,
   <<"1", ".", "2", "3", "4", ",", "5", "6", "7">>}

\* Every numeric string the recognition grammar accepts, up to max
\* characters of NumAlphabet, and the examples.
NumInputs(max) ==
  NumExamples \cup BinExamples \cup GroupedExamples
    \cup UNION {{s \in [1..n -> NumAlphabet] : IsDigit(s[1]) /\ NUM_PATTERN(s)} :
                  n \in 1..max}

\* Currency tokens: every symbol and code of the grammar, and others.
CurrencyInputs ==
  Range(CURRENCY_SYMBOLS)
    \cup {<<"X", "Y", "Z">>, <<"H", "K", "D">>, <<"T", "W", "D">>, <<"t", "l">>,
          <<"u", "s", "d">>, <<"T", "r", "y">>, <<"LIRA", "LIRA">>, <<"T">>,
          <<"$", "$">>, <<"B", "T", "C">>, <<"R">>, <<"h", "k", "$">>,
          <<>>}

ThanksWords ==
  {<<"t", "h", "a", "n", "k", "s">>,
   <<"t", "e", "s,", "e", "k", "k", "u:", "r">>,
   <<"T", "h", "a", "n", "k", "s">>}

\* A block with no keyword and no badge: a thanks word, then an amount in
\* the currency sym.
ThanksBlock(w, sym) == Comment(Ali, w \o <<" ">> \o sym \o <<"5">>, FALSE)

\* Blocks for the detection predicate.
DetectInputs ==
  {ThanksBlock(w, sym) : w \in ThanksWords, sym \in Range(CURRENCY_SYMBOLS)}
    \cup Catalogue

SuperThanksPrefix ==
  <<"S", "u", "p", "e", "r", " ", "T", "h", "a", "n", "k", "s", " ">>

\* A detected block writing digits "bin" after the currency sym ...
CurrencyFirstBin(sym, sp1, d, sp2) ==
  Comment(Ali,
    SuperThanksPrefix \o sym \o sp1 \o d \o sp2 \o <<"b", "i", "n">>, FALSE)

\* ... and before it.
NumberFirstBin(sym, sp1, d, sp2) ==
  Comment(Ali,
    SuperThanksPrefix \o d \o sp2 \o <<"b", "i", "n">> \o sp1 \o sym, FALSE)

BinDigits == {<<"2">>, <<"1", "5">>}

OptSpace == {<<>>, <<" ">>}

\* Pages holding one block, for extractFindingsInPage.
ExtractInputs ==
  {<<CurrencyFirstBin(sym, sp1, d, sp2)>> :
     sym \in Range(CURRENCY_SYMBOLS), sp1 \in OptSpace, d \in BinDigits,
     sp2 \in OptSpace}
  \cup
  {<<NumberFirstBin(sym, sp1, d, sp2)>> :
     sym \in Range(CURRENCY_SYMBOLS), sp1 \in OptSpace, d \in BinDigits,
     sp2 \in OptSpace}
  \cup {<<el>> : el \in Catalogue}

FnInit ==
  /\ RunInit
  /\ fnDone = FALSE
  /\ fnResult = <<>>
  /\ \/ fnName = "normNumber" /\ fnArg \in NumInputs(MaxNumLen)
     \/ fnName = "normalizeCurrency" /\ fnArg \in CurrencyInputs
     \/ fnName = "isSuperThanksBlock" /\ fnArg \in DetectInputs
     \/ fnName = "extractFindingsInPage" /\ fnArg \in ExtractInputs

ApplyNormNumber ==
  /\ fnName = "normNumber"
  /\ ~fnDone
  /\ fnResult' = normNumber(fnArg)
  /\ fnDone' = TRUE
  /\ UNCHANGED <<fnName, fnArg>>
  /\ UNCHANGED runVars

ApplyNormalizeCurrency ==
  /\ fnName = "normalizeCurrency"
  /\ ~fnDone
  /\ fnResult' = normalizeCurrency(fnArg)
  /\ fnDone' = TRUE
  /\ UNCHANGED <<fnName, fnArg>>
  /\ UNCHANGED runVars

ApplyIsSuperThanksBlock ==
  /\ fnName = "isSuperThanksBlock"
  /\ ~fnDone
  /\ fnResult' = isSuperThanksBlock(fnArg, Trim(fnArg.text))
  /\ fnDone' = TRUE
  /\ UNCHANGED <<fnName, fnArg>>
  /\ UNCHANGED runVars

ApplyExtract ==
  /\ fnName = "extractFindingsInPage"
  /\ ~fnDone
  /\ fnResult' = extractFindingsInPage(fnArg)
  /\ fnDone' = TRUE
  /\ UNCHANGED <<fnName, fnArg>>
  /\ UNCHANGED runVars

FnNext ==
  \/ ApplyNormNumber
  \/ ApplyNormalizeCurrency
  \/ ApplyIsSuperThanksBlock
  \/ ApplyExtract

FnSpec == FnInit /\ [][FnNext]_vars

(* ------------------------------ Claims -------------------------------- *)

Zero == Dec(0, 0)

\* The sum of the amounts of the findings of currency c in the log fs.
RECURSIVE SumOf(_, _)
SumOf(fs, c) ==
  IF fs = <<>> THEN Zero
  ELSE LET rest == SumOf(SubSeq(fs, 1, Len(fs) - 1), c)
           f    == fs[Len(fs)]
       IN  IF f.currency = c THEN NumAdd(rest, f.amount) ELSE rest

LogCurrencies == {findings[i].currency : i \in DOMAIN findings}

\* A step that runs the loop of collectAndReport.
IngestStep == call = "evaluated" /\ call' # "evaluated"

\* C1: in every state, between and after ingestion calls, the currencies
\* with a totals entry are exactly the currencies of the findings log, each
\* once, and each total is the sum of the amounts of the log's findings of
\* that currency.
C1_TotalsMatchLog ==
  /\ MapKeys(liveTotals) = LogCurrencies
  /\ Len(liveTotals) = Cardinality(LogCurrencies)
  /\ \A i \in DOMAIN liveTotals :
       liveTotals[i][2] = SumOf(findings, liveTotals[i][1])

\* C1 witness: the log holds two findings of one currency and one of
\* another, all summed into the totals.
C1_Witness ==
  /\ call = "none"
  /\ Len(liveTotals) >= 2
  /\ \E i, j \in DOMAIN findings :
       i # j /\ findings[i].currency = findings[j].currency

\* C2: an ingestion whose batch holds a fingerprint not seen before streams
\* a non-empty list of new findings (so does the first ingestion of a block
\* with an amount); an ingestion of the very batch the previous ingestion
\* took streams none and leaves the log, the seen-set and the totals as they
\* were.
C2_IdempotentDedup ==
  [][IngestStep =>
       /\ (\E i \in DOMAIN pageFindings :
             hashFinding(pageFindings[i]) \notin seen)
            => streamed' # <<>>
       /\ (batches # <<>> /\ batches[Len(batches)] = pageFindings)
            => /\ streamed' = <<>>
               /\ findings' = findings
               /\ seen' = seen
               /\ liveTotals' = liveTotals]_vars

\* C2 witness: the same non-empty batch was ingested twice in a row and the
\* second call streamed nothing.
C2_Witness ==
  /\ call = "none"
  /\ Len(batches) >= 2
  /\ batches[Len(batches)] = batches[Len(batches) - 1]
  /\ batches[Len(batches)] # <<>>
  /\ streamed = <<>>
  /\ findings # <<>>

\* C3: the log never holds two findings with one fingerprint, and the
\* seen-set is exactly the set of the fingerprints of the log's findings.
C3_UniqueFingerprints ==
  /\ \A i, j \in DOMAIN findings :
       i # j => hashFinding(findings[i]) # hashFinding(findings[j])
  /\ seen = {hashFinding(findings[i]) : i \in DOMAIN findings}

\* C3 witness: a fingerprint was observed more than once (twice in one
\* batch, or in two batches) and the log holds it.
C3_Witness ==
  /\ call = "none"
  /\ findings # <<>>
  /\ \E k, l \in DOMAIN batches :
       \E i \in DOMAIN batches[k], j \in DOMAIN batches[l] :
         /\ <<k, i>> # <<l, j>>
         /\ hashFinding(batches[k][i]) = hashFinding(batches[l][j])

\* The string s without a trailing "bin" and the white space before it.
WithoutBin(s) ==
  IF Len(s) >= 3 /\ OccursAtI(s, <<"b", "i", "n">>, Len(s) - 2)
    THEN TrimRight(SubSeq(s, 1, Len(s) - 3))
    ELSE s

\* The separator the rule makes the decimal point of b: the rightmost of
\* "." and "," when both occur; the only kind that occurs when exactly 1 or
\* 2 characters follow its last occurrence; "" (none) otherwise.
RuleSep(b) ==
  LET dot   == lastIndexOf(b, ".")
      comma == lastIndexOf(b, ",")
      last  == Max(dot, comma)
  IN  IF dot # 0 /\ comma # 0 THEN b[last]
      ELSE IF last # 0 /\ Len(b) - last \in 1..2 THEN b[last]
      ELSE ""

Occurrences(b, c) == Cardinality({i \in DOMAIN b : b[i] = c})

\* The amount written by the numeric string s: every digit of s, with the
\* decimal point where RuleSep(s) stands last, times 1000 after "bin".
RuleAmount(s) ==
  LET b      == WithoutBin(s)
      sep    == RuleSep(b)
      point  == IF sep = "" THEN 0 ELSE lastIndexOf(b, sep)
      digits == SelectSeq(b, IsDigit)
      value  == Dec(DigitsValue(digits), IF point = 0 THEN 0 ELSE Len(b) - point)
  IN  IF b = s THEN value ELSE NumTimes(value, 1000)

\* The table of numeric strings and amounts the claim lists.
SeparatorTable ==
  {<<<<"2", ".", "1", "9", "9", ",", "9", "9">>, Dec(219999, 2)>>,
   <<<<"1", ",", "2", "3", "4", ".", "5", "6">>, Dec(123456, 2)>>,
   <<<<"3", ".", "0", "0", "0">>, Dec(3000, 0)>>,
   <<<<"2", ".", "1", "9", "9">>, Dec(2199, 0)>>,
   <<<<"5", ".", "9", "9">>, Dec(599, 2)>>,
   <<<<"1", "0", " ", "0", "0", "0">>, Dec(10000, 0)>>,
   <<<<"1", "0", "NBSP", "0", "0", "0">>, Dec(10000, 0)>>,
   <<<<"2", " ", "b", "i", "n">>, Dec(2000, 0)>>,
   <<<<"3", "b", "i", "n">>, Dec(3000, 0)>>}

\* C4: for every numeric string the grammar accepts, normNumber settles on
\* the decimal separator of the rule (the rightmost of "." and "," when both
\* occur, the only one when 1 or 2 digits follow it, none otherwise), strips
\* the other separator and the spaces as thousands separators, multiplies by
\* 1000 after "bin", and returns the amounts of the table.
C4_SeparatorInference ==
  (fnName = "normNumber" /\ fnDone) =>
     LET b == WithoutBin(fnArg)
     IN  /\ decimalSep(b) = RuleSep(b)
         /\ (RuleSep(b) = "" \/ Occurrences(b, RuleSep(b)) = 1)
              => fnResult = RuleAmount(fnArg)
         /\ \A row \in SeparatorTable : fnArg = row[1] => fnResult = row[2]

\* C4 witness: normNumber has returned for a string with both separators,
\* the comma last.
C4_Witness ==
  /\ fnName = "normNumber"
  /\ fnDone
  /\ fnArg = <<"2", ".", "1", "9", "9", ",", "9", "9">>
  /\ fnResult = Dec(219999, 2)

\* C5: for a detected block writing <currency><optional space><digits>
\* [space]bin, or <digits>[space]bin<optional space><currency>,
\* extractFindingsInPage returns a finding of that currency whose amount is
\* digits x 1000.
C5_BinBothOrders ==
  (fnName = "extractFindingsInPage" /\ fnDone) =>
     \A sym \in Range(CURRENCY_SYMBOLS), d \in BinDigits,
        sp1 \in OptSpace, sp2 \in OptSpace :
       (\/ fnArg = <<CurrencyFirstBin(sym, sp1, d, sp2)>>
        \/ fnArg = <<NumberFirstBin(sym, sp1, d, sp2)>>)
         => \E i \in DOMAIN fnResult :
              /\ fnResult[i].currency = normalizeCurrency(sym)
              /\ fnResult[i].amount = Dec(DigitsValue(d) * 1000, 0)

\* The table of symbols and codes with their canonical codes.
CurrencyTable ==
  {<<<<"LIRA">>, <<"T", "R", "Y">>>>,
   <<<<"T", "L">>, <<"T", "R", "Y">>>>,
   <<<<"T", "R", "Y">>, <<"T", "R", "Y">>>>,
   <<<<"$">>, <<"U", "S", "D">>>>,
   <<<<"U", "S", "D">>, <<"U", "S", "D">>>>,
   <<<<"EURO">>, <<"E", "U", "R">>>>,
   <<<<"E", "U", "R">>, <<"E", "U", "R">>>>,
   <<<<"POUND">>, <<"G", "B", "P">>>>,
   <<<<"G", "B", "P">>, <<"G", "B", "P">>>>,
   <<<<"YEN">>, <<"J", "P", "Y">>>>,
   <<<<"J", "P", "Y">>, <<"J", "P", "Y">>>>,
   <<<<"RUPEE">>, <<"I", "N", "R">>>>,
   <<<<"I", "N", "R">>, <<"I", "N", "R">>>>,
   <<<<"WON">>, <<"K", "R", "W">>>>,
   <<<<"K", "R", "W">>, <<"K", "R", "W">>>>,
   <<<<"DONG">>, <<"V", "N", "D">>>>,
   <<<<"V", "N", "D">>, <<"V", "N", "D">>>>,
   <<<<"NAIRA">>, <<"N", "G", "N">>>>,
   <<<<"N", "G", "N">>, <<"N", "G", "N">>>>,
   <<<<"PESO">>, <<"P", "H", "P">>>>,
   <<<<"P", "H", "P">>, <<"P", "H", "P">>>>,
   <<<<"R", "$">>, <<"B", "R", "L">>>>,
   <<<<"B", "R", "L">>, <<"B", "R", "L">>>>,
   <<<<"A", "$">>, <<"A", "U", "D">>>>,
   <<<<"A", "U", "D">>, <<"A", "U", "D">>>>,
   <<<<"C", "$">>, <<"C", "A", "D">>>>,
   <<<<"C", "A", "D">>, <<"C", "A", "D">>>>,
   <<<<"H", "K", "$">>, <<"H", "K", "D">>>>,
   <<<<"N", "T", "$">>, <<"T", "W", "D">>>>}

\* C6: normalizeCurrency maps every symbol and code of the table to its
\* canonical code and returns any other token unchanged.
C6_CurrencyNormalization ==
  (fnName = "normalizeCurrency" /\ fnDone) =>
     /\ \A row \in CurrencyTable : fnArg = row[1] => fnResult = row[2]
     /\ (\A row \in CurrencyTable : fnArg # row[1]) => fnResult = fnArg

\* C6 witness: normalizeCurrency has returned for a three-character symbol.
C6_Witness ==
  /\ fnName = "normalizeCurrency"
  /\ fnDone
  /\ fnArg = <<"H", "K", "$">>
  /\ fnResult = <<"H", "K", "D">>

\* None of the three triggers holds for the block el.
NoTrigger(el) ==
  LET text == Trim(el.text)
  IN  /\ ~HasKeyword(LowerStr(text))
      /\ ~el.badge
      /\ ~(HasCurrencyMarker(text) /\ HasThanksWord(LowerStr(text)))

Triggered(el) == ~NoTrigger(el)

\* C7: the findings page.evaluate returns are those of the page without its
\* blocks for which no trigger holds, whatever amounts their text holds;
\* and a call that got no findings leaves the seen-set, the log and the
\* totals as they were.
C7_DetectionGating ==
  [][/\ (call = "none" /\ call' = "evaluated")
          => pageFindings' = extractFindingsInPage(SelectSeq(page, Triggered))
     /\ (IngestStep /\ pageFindings = <<>>)
          => /\ seen' = seen
             /\ findings' = findings
             /\ liveTotals' = liveTotals]_vars

\* C7 witness: a page whose only block holds an amount and no trigger has
\* been collected, with nothing found.
C7_Witness ==
  /\ pc = "done"
  /\ Len(page) = 1
  /\ NoTrigger(page[1])
  /\ AllMatches(Trim(page[1].text), 1) # <<>>
  /\ batches # <<>>
  /\ findings = <<>>
  /\ seen = {}
  /\ liveTotals = <<>>

\* The thanks-family words of the claim.
ClaimThanksWords ==
  {<<"t", "h", "a", "n", "k", "s">>,
   <<"t", "e", "s,", "e", "k", "k", "u:", "r">>}

\* C8: isSuperThanksBlock accepts a block with no keyword and no badge whose
\* text holds a thanks-family word and any currency symbol or code of the
\* recognition grammar.
C8_CoOccurrenceTrigger ==
  (fnName = "isSuperThanksBlock" /\ fnDone) =>
     \A w \in ClaimThanksWords, sym \in Range(CURRENCY_SYMBOLS) :
       fnArg = ThanksBlock(w, sym) => fnResult = TRUE

\* C9: when the page held the two blocks of the scenario, in that order,
\* the run ends with exactly the findings (TRY, 2199.99) and (USD, 5.99), in
\* that order, the totals {TRY: 2199.99, USD: 5.99} and the count 2.
C9_EndToEnd ==
  (pc = "done" /\ page = <<ScenarioLira, ScenarioDollar>>) =>
     /\ [i \in DOMAIN findings |->
           <<findings[i].currency, findings[i].amount>>]
          = <<<<<<"T", "R", "Y">>, Dec(219999, 2)>>,
              <<<<"U", "S", "D">>, Dec(599, 2)>>>>
     /\ totalsObj = <<<<<<"T", "R", "Y">>, Dec(219999, 2)>>,
                      <<<<"U", "S", "D">>, Dec(599, 2)>>>>
     /\ count = 2

\* C9 witness: the run over the two blocks of the scenario has ended.
C9_Witness ==
  /\ pc = "done"
  /\ page = <<ScenarioLira, ScenarioDollar>>
  /\ Len(batches) >= 1

\* The canonical codes in alphabetical order.
AlphabeticalCodes ==
  <<<<"A", "U", "D">>, <<"B", "R", "L">>, <<"C", "A", "D">>,
    <<"E", "U", "R">>, <<"G", "B", "P">>, <<"H", "K", "D">>,
    <<"I", "N", "R">>, <<"J", "P", "Y">>, <<"K", "R", "W">>,
    <<"N", "G", "N">>, <<"P", "H", "P">>, <<"T", "R", "Y">>,
    <<"T", "W", "D">>, <<"U", "S", "D">>, <<"V", "N", "D">>>>

CodeIndex(c) ==
  IF c \in Range(AlphabeticalCodes)
    THEN CHOOSE i \in DOMAIN AlphabeticalCodes : AlphabeticalCodes[i] = c
    ELSE 0

\* r has at most 2 decimals and lies within 0.005 of v.
IsRounded2(r, v) ==
  LET e  == Max(v.e, 2)
      rs == r.m * Pow10(e - r.e)
      vs == v.m * Pow10(e - v.e)
  IN  /\ r.fin /\ v.fin
      /\ r.e <= 2
      /\ 2 * (rs - vs) <= Pow10(e - 2)
      /\ 2 * (vs - rs) <= Pow10(e - 2)

\* obj holds exactly the currencies of map, in alphabetical order, each
\* with the total of map rounded to 2 decimals.
IsSnapshot(obj, map) ==
  /\ {obj[i][1] : i \in DOMAIN obj} = MapKeys(map)
  /\ \A i, j \in DOMAIN obj :
       i < j => CodeIndex(obj[i][1]) < CodeIndex(obj[j][1])
  /\ \A i \in DOMAIN obj : IsRounded2(obj[i][2], MapGetOr0(map, obj[i][1]))

\* C10: mapToSortedObject (main's report) and printLiveTotals leave the
\* totals Map, the seen-set and the findings log as they were, and what they
\* produce holds exactly the Map's currencies in alphabetical order, each
\* with its total rounded to 2 decimals.
C10_SnapshotPureRead ==
  [][/\ (pc = "report" /\ pc' = "done")
          => /\ liveTotals' = liveTotals
             /\ seen' = seen
             /\ findings' = findings
             /\ IsSnapshot(totalsObj', liveTotals)
     /\ (call = "print" /\ call' = "none")
          => /\ liveTotals' = liveTotals
             /\ seen' = seen
             /\ findings' = findings
             /\ IsSnapshot(printed', liveTotals)]_vars

\* C10 witness: a report of two currencies, entered in another order than
\* the alphabetical one, one of them with a total of more than 2 decimals.
C10_Witness ==
  /\ pc = "done"
  /\ Len(totalsObj) >= 2
  /\ liveTotals[1][1] # totalsObj[1][1]
  /\ \E i \in DOMAIN liveTotals : liveTotals[i][2].e > 2

\* a is a prefix of b.
IsPrefix(a, b) == Len(a) <= Len(b) /\ SubSeq(b, 1, Len(a)) = a

\* The findings of fs whose fingerprint is not in s and occurs in fs for
\* the first time, in the order of fs.
RECURSIVE FirstObserved(_, _)
FirstObserved(fs, s) ==
  IF fs = <<>> THEN <<>>
  ELSE LET h == hashFinding(Head(fs))
       IN  IF h \in s THEN FirstObserved(Tail(fs), s)
           ELSE <<Head(fs)>> \o FirstObserved(Tail(fs), s \cup {h})

\* The matches of the set S from the leftmost to the rightmost.
RECURSIVE ByStart(_)
ByStart(S) ==
  IF S = {} THEN <<>>
  ELSE LET m == CHOOSE x \in S : \A y \in S : x.start <= y.start
       IN  <<m>> \o ByStart(S \ {m})

\* The [currency, amount] pairs a triggered block yields, read from the
\* left to the right of its text.
LeftToRight(el) ==
  LET text == Trim(el.text)
      ms   == AllMatches(text, 1)
      fs   == FindingsOfMatches(el, ByStart({ms[i] : i \in DOMAIN ms}))
  IN  IF NoTrigger(el) THEN <<>>
      ELSE [i \in DOMAIN fs |-> <<fs[i].currency, fs[i].amount>>]

\* LeftToRight over the catalogue, computed once.
CataloguePairs == [el \in Catalogue |-> LeftToRight(el)]

\* The pairs of the blocks, first block first.
RECURSIVE InOrderFound(_)
InOrderFound(blocks) ==
  IF blocks = <<>> THEN <<>>
  ELSE (IF Head(blocks) \in Catalogue
          THEN CataloguePairs[Head(blocks)]
          ELSE LeftToRight(Head(blocks)))
         \o InOrderFound(Tail(blocks))

\* C11: every step leaves the log it found as a prefix of the log; an
\* ingestion call appends its new findings (fingerprint not seen before,
\* first occurrence in the batch) in the order of the batch; and the batch
\* page.evaluate returns lists the blocks in the order supplied and the
\* matches of a block from left to right.
C11_AppendOnlyOrder ==
  [][/\ IsPrefix(findings, findings')
     /\ IngestStep
          => findings' = findings \o FirstObserved(pageFindings, seen)
     /\ (call = "none" /\ call' = "evaluated")
          => [i \in DOMAIN pageFindings' |->
                <<pageFindings'[i].currency, pageFindings'[i].amount>>]
               = InOrderFound(page)]_vars

\* C11 witness: a call has appended two new findings, of two amounts of
\* one block, to a log that held a finding already.
C11_Witness ==
  /\ Len(streamed) >= 2
  /\ Len(findings) > Len(streamed)
  /\ streamed[1].amount # streamed[2].amount
  /\ streamed[1].snippet = streamed[2].snippet
  /\ SubSeq(findings, Len(findings) - Len(streamed) + 1, Len(findings))
       = streamed

\* C12: at most one collectAndReport call is running at any time, in the
\* first pass, the second pass and the final collection; a call starts only
\* when no call is running; and the seen-set, the log and the totals change
\* only in the one step of the one running call that runs its loop, from
\* the batch that call evaluated.
C12_NoOverlap ==
  [][/\ running \in 0..1
     /\ running' \in 0..1
     /\ (running' > running) => (running = 0 /\ call = "none")
     /\ (seen' # seen \/ findings' # findings \/ liveTotals' # liveTotals)
          => /\ IngestStep
             /\ running = 1
             /\ batches' = Append(batches, pageFindings)
             /\ findings' = findings \o FirstObserved(pageFindings, seen)]_vars

\* C12 witness: a call of the second pass is running after a call of the
\* first pass has ingested a finding and returned.
C12_Witness ==
  /\ pc = "pass2"
  /\ running = 1
  /\ call = "evaluated"
  /\ batches # <<>>
  /\ findings # <<>>
  /\ pageFindings # <<>>

\* The amount of the match m parses to a finite value and its currency is
\* not empty.
Parsable(m) ==
  /\ isFinite(normNumber(Trim(m.num)))
  /\ RemoveChars(UpperStr(m.cur), {" ", "LF", "NBSP", "NNBSP"}) # <<>>

\* The findings of the parsable matches of a triggered block, one a match.
KeptOfBlock(el) ==
  LET ms   == SelectSeq(AllMatches(Trim(el.text), 1), Parsable)
      meta == getAuthorAndSnippet(el)
  IN  IF NoTrigger(el) THEN <<>>
      ELSE [i \in DOMAIN ms |->
              [currency |-> normalizeCurrency(UpperStr(ms[i].cur)),
               amount   |-> normNumber(Trim(ms[i].num)),
               author   |-> meta.author,
               snippet  |-> meta.snippet]]

\* KeptOfBlock over the catalogue, computed once.
CatalogueKept == [el \in Catalogue |-> KeptOfBlock(el)]

RECURSIVE KeptOfBlocks(_)
KeptOfBlocks(blocks) ==
  IF blocks = <<>> THEN <<>>
  ELSE (IF Head(blocks) \in Catalogue
          THEN CatalogueKept[Head(blocks)]
          ELSE KeptOfBlock(Head(blocks)))
         \o KeptOfBlocks(Tail(blocks))

WellFormed(f) == isFinite(f.amount) /\ f.currency # <<>>

\* C13: the batch page.evaluate returns holds one finding for every match
\* that parses, those after a match that does not parse and those of later
\* blocks included, and none for a match that does not parse; and the log
\* and the totals never hold an amount that is not finite or a currency that
\* is empty.
C13_FailedParseSkipped ==
  [][/\ (call = "none" /\ call' = "evaluated")
          => pageFindings' = KeptOfBlocks(page)
     /\ \A i \in DOMAIN findings' : WellFormed(findings'[i])
     /\ \A i \in DOMAIN liveTotals' :
          liveTotals'[i][1] # <<>> /\ isFinite(liveTotals'[i][2])
     /\ Cardinality(seen') = Len(findings')]_vars

\* C13 witness: the run has ended over a page whose first block holds an
\* amount beyond the largest double and an amount after it, and whose second
\* block holds an amount: the amount after and the amount of the second block
\* are logged and nothing else.
C13_Witness ==
  /\ pc = "done"
  /\ Len(page) = 2
  /\ \E i \in DOMAIN AllMatches(Trim(page[1].text), 1) :
       ~Parsable(AllMatches(Trim(page[1].text), 1)[i])
  /\ Len(findings) = 2
  /\ findings[1].snippet = getAuthorAndSnippet(page[1]).snippet
  /\ findings[2].snippet = getAuthorAndSnippet(page[2]).snippet
  /\ findings[2].snippet # findings[1].snippet

\* C14: normNumber returns the number formed by all the digits of its
\* argument with one decimal point at the resolved position (RuleAmount),
\* also when one character groups the thousands and delimits the fraction:
\* "1.234.56" and "1,234,56" both give 1234.56.
C14_StripsRemainingSeparators ==
  (fnName = "normNumber" /\ fnDone) =>
     /\ fnResult = RuleAmount(fnArg)
     /\ fnArg \in {<<"1", ".", "2", "3", "4", ".", "5", "6">>,
                   <<"1", ",", "2", "3", "4", ",", "5", "6">>}
          => fnResult = Dec(123456, 2)

\* C15: the amount normNumber returns for a number of the grammar is
\* finite, not negative, and has at most two fractional digits.
C15_TwoFractionalDigits ==
  (fnName = "normNumber" /\ fnDone) =>
     /\ fnResult.fin
     /\ fnResult.m >= 0
     /\ fnResult.e <= 2

\* The four components the fingerprint is computed from.
Tuple(f) == <<f.currency, f.amount, Trim(f.author), Trim(f.snippet)>>

\* Every finding of every batch ingested so far.
Observed == UNION {Range(batches[k]) : k \in DOMAIN batches}

\* The sum of the amounts of currency c over a set of tuples.
RECURSIVE SumOfTuples(_, _)
SumOfTuples(S, c) ==
  IF S = {} THEN Zero
  ELSE LET x == CHOOSE y \in S : TRUE
           rest == SumOfTuples(S \ {x}, c)
       IN  IF x[1] = c THEN NumAdd(rest, x[2]) ELSE rest

\* C16: two findings that differ in currency, amount, trimmed author or
\* trimmed snippet have different fingerprints, so after every call each
\* tuple observed is in the log and the totals sum every tuple observed
\* once.
C16_FingerprintInjective ==
  /\ \A f, g \in Observed :
       Tuple(f) # Tuple(g) => hashFinding(f) # hashFinding(g)
  /\ call = "none" =>
       /\ \A f \in Observed :
            \E i \in DOMAIN findings : Tuple(findings[i]) = Tuple(f)
       /\ \A i \in DOMAIN liveTotals :
            liveTotals[i][2]
              = SumOfTuples({Tuple(f) : f \in Observed}, liveTotals[i][1])

\* C17: the amount a reply writes once is added to the totals at most once:
\* over a page holding the thread with the reply shown and the reply's own
\* block, the log holds at most one finding of the reply's amount and the
\* total of its currency is at most that amount.
C17_ReplyCountedOnce ==
  (\A i \in DOMAIN page : page[i] \in {ThreadWithReply, ReplyBlock}) =>
     /\ Cardinality({i \in DOMAIN findings :
                       findings[i].currency = <<"E", "U", "R">>}) <= 1
     /\ MapGetOr0(liveTotals, <<"E", "U", "R">>) \in {Zero, Dec(3, 0)}

====
